---- MODULE Spec2Model ----
(***************************************************************************)
(* Model of leptos-use: the event listener binder                          *)
(* (src/src/use_event_listener.rs), the mouse position tracker built on    *)
(* it (src/src/use_mouse.rs) and the derived NOT signal                    *)
(* (src/src/math/use_not.rs).                                              *)
(*                                                                         *)
(* The host DOM is modelled by the list of native registrations of         *)
(* EventTarget: addEventListener ignores a registration whose (type,       *)
(* callback, capture) triple is already present on the target, and         *)
(* removeEventListener(type, callback) removes the triple with             *)
(* capture = false.  The reactive framework is modelled by what the        *)
(* binder uses of it: a target signal, an effect that re-runs              *)
(* synchronously when the signal is written, and scope disposal, which     *)
(* runs the on_cleanup callbacks and disposes the effects.                 *)
(***************************************************************************)
EXTENDS Integers, Sequences, FiniteSets, TLC

\* ---------------------------------------------------------------- bounds
NumTargets == 2        \* concrete event targets the target signal can take
MaxCoord == 0          \* values written through set_x / set_y
MaxMouseEvents == 1    \* distinct mouse / drag event payloads
MaxTouchPoints == 1    \* distinct touch points
MaxTouches == 1        \* longest touch list of a touch event

Targets == 1..NumTargets
NoElement == 0         \* the target signal resolves to None
TargetValues == Targets \cup {NoElement}
Coords == 0..MaxCoord

None == << >>
Some(v) == << v >>

VARIABLES
    target,        \* current value of the target signal
    listeners,     \* native registrations held by the DOM
    bindings,      \* binding key -> state of one use_event_listener_with_options call
    disposed,      \* the owning scope has been disposed
    calls,         \* native calls made by the last operation, in order
    lastOp,        \* the last operation, whether a handler ran and what it extracted
    unsubscribed,  \* a returned unsubscribe function has been called
    fresh,         \* nothing but the effect's first run and unsubscribe happened since bind
    options,       \* UseMouseOptions of the tracker (NoTracker when there is none)
    x, y,          \* the tracker's coordinate signals
    source_type,   \* the tracker's source type signal
    failing,       \* the native calls ("add", "remove") that return Err for now
    a,             \* the source signal of use_not: its value and the writes made to it
    reads          \* what the last read of the derived signals returned

binderVars == <<target, listeners, bindings, disposed, calls, unsubscribed, fresh>>
mouseVars  == <<options, x, y, source_type>>
notVars    == <<a, reads>>
vars == <<target, listeners, bindings, disposed, calls, lastOp, unsubscribed, fresh,
          options, x, y, source_type, failing, a, reads>>

\* ------------------------------------------------------------ host DOM
\* web_sys::AddEventListenerOptions: the flags the binder passes through
AddEventListenerOptions == [capture : BOOLEAN, passive : BOOLEAN]

\* a world is the DOM's registrations, the log of native calls and the native
\* calls that return Err in it
World(L, C) == [listeners |-> L, calls |-> C, failing |-> {}]

SameTriple(l, element, event, handler, capture) ==
    /\ l.target = element
    /\ l.event = event
    /\ l.handler = handler
    /\ l.capture = capture

\* EventTarget.addEventListener(type, callback, options); a call that returns
\* Err has registered nothing
add_event_listener_with_callback_and_add_event_listener_options(w, element, event, handler, opts) ==
    [w EXCEPT
        !.listeners =
            IF \/ "add" \in w.failing
               \/ \E l \in w.listeners : SameTriple(l, element, event, handler, opts.capture)
            THEN w.listeners
            ELSE w.listeners \cup {[target |-> element, event |-> event, handler |-> handler,
                                    capture |-> opts.capture, passive |-> opts.passive]},
        !.calls = Append(w.calls, [call |-> "add", target |-> element, event |-> event,
                                   handler |-> handler, opts |-> opts])]

\* EventTarget.removeEventListener(type, callback): capture defaults to false;
\* a call that returns Err has removed nothing
remove_event_listener_with_callback(w, element, event, handler) ==
    [w EXCEPT
        !.listeners =
            IF "remove" \in w.failing THEN w.listeners
            ELSE {l \in w.listeners : ~SameTriple(l, element, event, handler, FALSE)},
        !.calls = Append(w.calls, [call |-> "remove", target |-> element, event |-> event,
                                   handler |-> handler, opts |-> None])]

\* the DOM as an operation of the program finds it
Host == [World(listeners, << >>) EXCEPT !.failing = failing]

\* ------------------------------------------------- use_event_listener.rs
\* cleanup_fn: the closure that unregisters the handler from one element
cleanup_fn(w, element, key, b) ==
    remove_event_listener_with_callback(w, element, b.event, key)

\* cleanup_prev_element.borrow()(): run the stored cleanup action; the cell
\* holds the element captured by the closure, NoElement for the no-op closure
RunCleanupPrev(w, key, b) ==
    IF b.cleanup_prev_element = NoElement
    THEN w
    ELSE cleanup_fn(w, b.cleanup_prev_element, key, b)

\* the registration both at bind time and in the effect: `if let Some(element)`
RegisterOn(w, element, key, b) ==
    IF element # NoElement
    THEN add_event_listener_with_callback_and_add_event_listener_options(
             w, element, b.event, key, b.options)
    ELSE w

\* a binding right after the synchronous part of use_event_listener_with_options
NewBinding(element, event, opts) ==
    [event |-> event, options |-> opts, cleanup_prev_element |-> element, effect |-> "pending"]

\* the body of the effect: run the stored cleanup, read the signal, register,
\* replace the stored cleanup
EffectWorld_DefaultOptions(w, key, b, element) ==
    IF element # NoElement
    THEN add_event_listener_with_callback_and_add_event_listener_options(
             RunCleanupPrev(w, key, b), element, b.event, key,
             [capture |-> FALSE, passive |-> FALSE])
    ELSE RunCleanupPrev(w, key, b)

EffectWorld(w, key, b, element) ==
    RegisterOn(RunCleanupPrev(w, key, b), element, key, b)

EffectBinding_PropagatesErr(b, element) ==
    IF element # NoElement /\ "add" \in failing THEN [b EXCEPT !.effect = "active"]
    ELSE [b EXCEPT !.cleanup_prev_element = element, !.effect = "active"]

EffectBinding_KeepsCleanupWhenAbsent(b, element) ==
    IF element = NoElement THEN [b EXCEPT !.effect = "active"]
    ELSE [b EXCEPT !.cleanup_prev_element = element, !.effect = "active"]

\* the cell and the effect after the effect body has run
EffectBinding(b, element) ==
    [b EXCEPT !.cleanup_prev_element = element, !.effect = "active"]

\* run the effect body of every binding of `keys` (in creation order) whose
\* effect is in state `st`
RECURSIVE RunEffectsWorld(_, _, _, _, _)
RunEffectsWorld(w, bs, keys, st, element) ==
    IF keys = << >> THEN w
    ELSE LET k == Head(keys) IN
         RunEffectsWorld(
             IF bs[k].effect = st THEN EffectWorld(w, k, bs[k], element) ELSE w,
             bs, Tail(keys), st, element)

RunEffectsBindings(bs, st, element) ==
    [k \in DOMAIN bs |-> IF bs[k].effect = st THEN EffectBinding(bs[k], element) ELSE bs[k]]

RunCleanupsWorld_RunsNone(w, bs, keys) == w

\* run the stored cleanup of every binding of `keys`
RECURSIVE RunCleanupsWorld(_, _, _)
RunCleanupsWorld(w, bs, keys) ==
    IF keys = << >> THEN w
    ELSE RunCleanupsWorld(RunCleanupPrev(w, Head(keys), bs[Head(keys)]), bs, Tail(keys))

\* bind the events of `keys` in order, each to the handler named like its key
RECURSIVE BindAllWorld(_, _, _, _, _)
BindAllWorld(w, keys, element, opts, sync) ==
    IF keys = << >> THEN w
    ELSE LET k  == Head(keys)
             b  == NewBinding(element, k, opts)
             w1 == RegisterOn(w, element, k, b)
             w2 == IF sync THEN EffectWorld(w1, k, b, element) ELSE w1
         IN  BindAllWorld(w2, Tail(keys), element, opts, sync)

BindAllBindings(keys, element, opts, sync) ==
    [k \in {keys[i] : i \in DOMAIN keys} |->
        IF sync THEN EffectBinding(NewBinding(element, k, opts), element)
        ELSE NewBinding(element, k, opts)]

\* creation order of the bindings
AllKeys == <<"listener", "mousemove", "dragover", "touchstart", "touchmove", "touchend">>
KeysOf(bs) == SelectSeq(AllKeys, LAMBDA k : k \in DOMAIN bs)

\* an effect still waits for its first run: the task that created it has not
\* returned to the event loop, which delivers no event before it has
EffectsPending == \E k \in DOMAIN bindings : bindings[k].effect = "pending"

ListenerEvents == {"click", "keydown"}
NoTracker == [kind |-> "none"]

\* ------------------------------------------------------ binder operations
\* `handled`: a handler of the tracker was invoked; `result`: what it extracted
\* `at`: the element an event arrived at
Op(op) == [op |-> op, at |-> NoElement, handled |-> FALSE, result |-> None]
EventOp(op, element, handled, result) ==
    [op |-> op, at |-> element, handled |-> handled, result |-> result]

\* use_event_listener_with_options(cx, target, event, handler, options); `sync`
\* tells whether create_effect runs the effect before it returns
Bind(event, opts, sync) ==
    /\ bindings = << >>
    /\ ~disposed
    /\ options = NoTracker
    /\ LET b  == NewBinding(target, event, opts)
           w1 == RegisterOn(Host, target, "listener", b)
           w2 == IF sync THEN EffectWorld(w1, "listener", b, target) ELSE w1
       IN  /\ listeners' = w2.listeners
           /\ calls' = w2.calls
           /\ bindings' = [k \in {"listener"} |-> IF sync THEN EffectBinding(b, target) ELSE b]
    /\ fresh' = TRUE
    /\ lastOp' = Op("bind")
    /\ UNCHANGED <<failing, a, reads, target, disposed, unsubscribed, options, x, y, source_type>>

\* the first run of the effects that create_effect queued
RunPendingEffects ==
    /\ ~disposed
    /\ EffectsPending
    /\ LET w == RunEffectsWorld(Host, bindings, KeysOf(bindings),
                                "pending", target)
       IN  /\ listeners' = w.listeners
           /\ calls' = w.calls
    /\ bindings' = RunEffectsBindings(bindings, "pending", target)
    /\ lastOp' = Op("effects")
    /\ UNCHANGED <<failing, a, reads, target, disposed, unsubscribed, fresh, options, x, y, source_type>>

\* a write to the target signal: the effects that track it re-run synchronously
ChangeTarget(new) ==
    /\ bindings # << >>
    /\ target' = new
    /\ LET w == RunEffectsWorld(Host, bindings, KeysOf(bindings),
                                "active", new)
       IN  /\ listeners' = w.listeners
           /\ calls' = w.calls
    /\ bindings' = RunEffectsBindings(bindings, "active", new)
    /\ fresh' = FALSE
    /\ lastOp' = Op("target")
    /\ UNCHANGED <<failing, a, reads, disposed, unsubscribed, options, x, y, source_type>>

\* the returned closure: `move || cleanup_prev_element.borrow()()`
Unsubscribe ==
    /\ "listener" \in DOMAIN bindings
    /\ LET w == RunCleanupPrev(Host, "listener", bindings["listener"])
       IN  /\ listeners' = w.listeners
           /\ calls' = w.calls
    /\ unsubscribed' = TRUE
    /\ lastOp' = Op("unsubscribe")
    /\ UNCHANGED <<failing, a, reads, target, bindings, disposed, fresh, options, x, y, source_type>>

\* disposal of the owning scope: the on_cleanup callbacks run, the effects die
DisposeScope ==
    /\ bindings # << >>
    /\ ~disposed
    /\ LET w == RunCleanupsWorld(Host, bindings, KeysOf(bindings))
       IN  /\ listeners' = w.listeners
           /\ calls' = w.calls
    /\ bindings' = [k \in DOMAIN bindings |-> [bindings[k] EXCEPT !.effect = "disposed"]]
    /\ disposed' = TRUE
    /\ fresh' = FALSE
    /\ lastOp' = Op("dispose")
    /\ UNCHANGED <<failing, a, reads, target, unsubscribed, options, x, y, source_type>>

\* the state of use_not's signals when no use_not call is modelled
NoSignals ==
    /\ a = [value |-> FALSE, writes |-> << >>]
    /\ reads = None

InitBinder ==
    /\ target \in TargetValues
    /\ listeners = {}
    /\ bindings = << >>
    /\ disposed = FALSE
    /\ calls = << >>
    /\ lastOp = Op("init")
    /\ unsubscribed = FALSE
    /\ fresh = FALSE

Init ==
    /\ InitBinder
    /\ failing = {}
    /\ NoSignals
    /\ options = NoTracker
    /\ x = 0
    /\ y = 0
    /\ source_type = "Unset"

Next ==
    \/ \E event \in ListenerEvents, opts \in AddEventListenerOptions, sync \in BOOLEAN :
           Bind(event, opts, sync)
    \/ RunPendingEffects
    \/ \E new \in TargetValues : ChangeTarget(new)
    \/ Unsubscribe
    \/ DisposeScope

Spec == Init /\ [][Next]_vars

\* ------------------------------------------------- failing native calls
\* the native calls of web_sys return Result<(), JsValue>
NativeCalls == {"add", "remove"}

\* the host starts or stops answering some native calls with Err
SetFailing(F) ==
    /\ F # failing
    /\ failing' = F
    /\ calls' = << >>
    /\ lastOp' = Op("failing")
    /\ UNCHANGED <<a, reads, target, listeners, bindings, disposed, unsubscribed, fresh,
                   options, x, y, source_type>>

InitFailing ==
    /\ InitBinder
    /\ failing \in SUBSET NativeCalls
    /\ NoSignals
    /\ options = NoTracker
    /\ x = 0
    /\ y = 0
    /\ source_type = "Unset"

NextFailing ==
    \/ \E event \in ListenerEvents, opts \in AddEventListenerOptions, sync \in BOOLEAN :
           Bind(event, opts, sync)
    \/ RunPendingEffects
    \/ \E new \in TargetValues : ChangeTarget(new)
    \/ Unsubscribe
    \/ DisposeScope
    \/ \E F \in SUBSET NativeCalls : SetFailing(F)

SpecFailing == InitFailing /\ [][NextFailing]_vars

\* ----------------------------------------------------------- use_mouse.rs
UseMouseSourceType == {"Mouse", "Touch", "Unset"}

\* implementations of the trait UseMouseEventExtractor a caller can pass to
\* Custom: the default one, the documentation's MyExtractor (mouse mapping
\* only) and one that overrides both mappings
CustomExtractors == {"UseMouseEventExtractorDefault", "MyExtractor", "BothExtractor"}

UseMouseCoordType ==
    [kind : {"Page", "Client", "Screen", "Movement"}, ex : {"-"}]
        \cup [kind : {"Custom"}, ex : CustomExtractors]

\* initial_value: the default Position and one that differs from it in x and y
InitialValues == {[x |-> 0, y |-> 0], [x |-> 1, y |-> 2]}

UseMouseOptions ==
    [coord_type : UseMouseCoordType, touch : BOOLEAN, reset_on_touch_ends : BOOLEAN,
     initial_value : InitialValues]

\* event payloads: every accessor of one payload returns a different number,
\* so that the accessor an extractor reads can be told from the result
MouseEvent(k) ==
    [page_x |-> 10 * k, page_y |-> 10 * k + 1, client_x |-> 10 * k + 2,
     client_y |-> 10 * k + 3, screen_x |-> 10 * k + 4, screen_y |-> 10 * k + 5,
     movement_x |-> 10 * k + 6, movement_y |-> 10 * k + 7,
     offset_x |-> 10 * k + 8, offset_y |-> 10 * k + 9]
MouseEvents == {MouseEvent(k) : k \in 1..MaxMouseEvents}

Touch(k) ==
    [page_x |-> 100 + 10 * k, page_y |-> 101 + 10 * k, client_x |-> 102 + 10 * k,
     client_y |-> 103 + 10 * k, screen_x |-> 104 + 10 * k, screen_y |-> 105 + 10 * k]
Touches == {Touch(k) : k \in 1..MaxTouchPoints}

RECURSIVE SeqsUpTo(_, _)
SeqsUpTo(S, n) ==
    IF n = 0 THEN {<< >>}
    ELSE LET shorter == SeqsUpTo(S, n - 1)
         IN  shorter \cup {Append(q, e) : q \in shorter, e \in S}
TouchEvents == [touches : SeqsUpTo(Touches, MaxTouches)]

\* the methods a custom extractor implements; the trait's defaults return None
CustomMouseCoords(ex, event) ==
    IF ex = "UseMouseEventExtractorDefault" THEN None
    ELSE Some(<<event.offset_x, event.offset_y>>)

CustomTouchCoords(ex, touch) ==
    IF ex = "BothExtractor" THEN Some(<<touch.client_x, touch.client_y>>)
    ELSE None

extract_mouse_coords_ClientReadsPage(coord_type, event) ==
    CASE coord_type.kind = "Page"     -> Some(<<event.page_x, event.page_y>>)
      [] coord_type.kind = "Client"   -> Some(<<event.page_x, event.page_y>>)
      [] coord_type.kind = "Screen"   -> Some(<<event.screen_x, event.client_y>>)
      [] coord_type.kind = "Movement" -> Some(<<event.movement_x, event.movement_y>>)
      [] coord_type.kind = "Custom"   -> CustomMouseCoords(coord_type.ex, event)

\* impl UseMouseEventExtractor for UseMouseCoordType
extract_mouse_coords(coord_type, event) ==
    CASE coord_type.kind = "Page"     -> Some(<<event.page_x, event.page_y>>)
      [] coord_type.kind = "Client"   -> Some(<<event.client_x, event.client_y>>)
      [] coord_type.kind = "Screen"   -> Some(<<event.screen_x, event.client_y>>)
      [] coord_type.kind = "Movement" -> Some(<<event.movement_x, event.movement_y>>)
      [] coord_type.kind = "Custom"   -> CustomMouseCoords(coord_type.ex, event)

extract_touch_coords(coord_type, touch) ==
    CASE coord_type.kind = "Page"     -> Some(<<touch.page_x, touch.page_y>>)
      [] coord_type.kind = "Client"   -> Some(<<touch.client_x, touch.client_y>>)
      [] coord_type.kind = "Screen"   -> Some(<<touch.screen_x, touch.client_y>>)
      [] coord_type.kind = "Movement" -> None
      [] coord_type.kind = "Custom"   -> CustomTouchCoords(coord_type.ex, touch)

\* the three signals of the tracker
Signals(vx, vy, st) == [x |-> vx, y |-> vy, source_type |-> st]

mouse_handler_KeepsSourceType(sig, coord_type, event) ==
    LET result == extract_mouse_coords(coord_type, event)
    IN  IF result # None
        THEN Signals(result[1][1], result[1][2], sig.source_type)
        ELSE sig

\* mouse_handler, which drag_handler calls with the drag event cast to a MouseEvent
mouse_handler(sig, coord_type, event) ==
    LET result == extract_mouse_coords(coord_type, event)
    IN  IF result # None
        THEN Signals(result[1][1], result[1][2], "Mouse")
        ELSE sig

\* what touch_handler extracts: nothing from an empty touch list
TouchResult(coord_type, event) ==
    IF Len(event.touches) > 0
    THEN extract_touch_coords(coord_type, event.touches[1])
    ELSE None

touch_handler_SourceTypeAlways(sig, coord_type, event) ==
    LET result == TouchResult(coord_type, event)
    IN  IF result # None
        THEN Signals(result[1][1], result[1][2], "Touch")
        ELSE Signals(sig.x, sig.y, "Touch")

touch_handler(sig, coord_type, event) ==
    LET result == TouchResult(coord_type, event)
    IN  IF result # None
        THEN Signals(result[1][1], result[1][2], "Touch")
        ELSE sig

reset_AlsoSourceType(sig, initial_value) ==
    Signals(initial_value.x, initial_value.y, "Unset")

\* reset: the touchend handler
reset(sig, initial_value) ==
    Signals(initial_value.x, initial_value.y, sig.source_type)

TrackerKeys_IgnoresMovement(opts) ==
    <<"mousemove", "dragover">>
        \o (IF opts.touch
            THEN <<"touchstart", "touchmove">>
                     \o (IF opts.reset_on_touch_ends THEN <<"touchend">> ELSE << >>)
            ELSE << >>)

TrackerKeys_IgnoresTouchOption(opts) ==
    <<"mousemove", "dragover">>
        \o (IF opts.coord_type.kind # "Movement"
            THEN <<"touchstart", "touchmove">>
                     \o (IF opts.reset_on_touch_ends THEN <<"touchend">> ELSE << >>)
            ELSE << >>)

\* the events use_mouse_with_options binds, in order
TrackerKeys(opts) ==
    <<"mousemove", "dragover">>
        \o (IF opts.touch /\ opts.coord_type.kind # "Movement"
            THEN <<"touchstart", "touchmove">>
                     \o (IF opts.reset_on_touch_ends THEN <<"touchend">> ELSE << >>)
            ELSE << >>)

\* event_listener_options: AddEventListenerOptions::new() with passive(true)
event_listener_options == [capture |-> FALSE, passive |-> TRUE]

\* the DOM invokes the callback registered on `element` for `event`
HasListener(element, event) ==
    \E l \in listeners : l.target = element /\ l.event = event /\ l.handler = event

CurrentSignals == Signals(x, y, source_type)

SetSignals(sig) ==
    /\ x' = sig.x
    /\ y' = sig.y
    /\ source_type' = sig.source_type

\* a mousemove or dragover event arrives at `element`
DispatchMouse(element, name, event) ==
    /\ options # NoTracker
    /\ ~EffectsPending
    /\ LET handled == HasListener(element, name)
       IN  /\ SetSignals(IF handled
                         THEN mouse_handler(CurrentSignals, options.coord_type, event)
                         ELSE CurrentSignals)
           /\ lastOp' = EventOp(name, element, handled,
                                IF handled
                                THEN extract_mouse_coords(options.coord_type, event)
                                ELSE None)
    /\ calls' = << >>
    /\ UNCHANGED <<failing, a, reads, target, listeners, bindings, disposed, unsubscribed, fresh, options>>

\* a touchstart or touchmove event arrives at `element`
DispatchTouch(element, name, event) ==
    /\ options # NoTracker
    /\ ~EffectsPending
    /\ LET handled == HasListener(element, name)
       IN  /\ SetSignals(IF handled
                         THEN touch_handler(CurrentSignals, options.coord_type, event)
                         ELSE CurrentSignals)
           /\ lastOp' = EventOp(name, element, handled,
                                IF handled THEN TouchResult(options.coord_type, event)
                                ELSE None)
    /\ calls' = << >>
    /\ UNCHANGED <<failing, a, reads, target, listeners, bindings, disposed, unsubscribed, fresh, options>>

\* a touchend event arrives at `element`
DispatchTouchEnd(element) ==
    /\ options # NoTracker
    /\ ~EffectsPending
    /\ LET handled == HasListener(element, "touchend")
       IN  /\ SetSignals(IF handled
                         THEN reset(CurrentSignals, options.initial_value)
                         ELSE CurrentSignals)
           /\ lastOp' = EventOp("touchend", element, handled, None)
    /\ calls' = << >>
    /\ UNCHANGED <<failing, a, reads, target, listeners, bindings, disposed, unsubscribed, fresh, options>>

\* the returned write signals; the signals die with the scope
set_x(v) ==
    /\ options # NoTracker
    /\ ~disposed
    /\ x' = v
    /\ lastOp' = Op("set_x")
    /\ calls' = << >>
    /\ UNCHANGED <<failing, a, reads, target, listeners, bindings, disposed, unsubscribed, fresh, options,
                   y, source_type>>

set_y(v) ==
    /\ options # NoTracker
    /\ ~disposed
    /\ y' = v
    /\ lastOp' = Op("set_y")
    /\ calls' = << >>
    /\ UNCHANGED <<failing, a, reads, target, listeners, bindings, disposed, unsubscribed, fresh, options,
                   x, source_type>>

\* the state after use_mouse_with_options(cx, options) has returned
InitMouse ==
    /\ failing = {}
    /\ NoSignals
    /\ target \in TargetValues
    /\ options \in UseMouseOptions
    /\ \E sync \in BOOLEAN :
        LET w == BindAllWorld(World({}, << >>), TrackerKeys(options), target,
                              event_listener_options, sync)
        IN  /\ listeners = w.listeners
            /\ calls = w.calls
            /\ bindings = BindAllBindings(TrackerKeys(options), target,
                                          event_listener_options, sync)
    /\ disposed = FALSE
    /\ unsubscribed = FALSE
    /\ fresh = FALSE
    /\ x = options.initial_value.x
    /\ y = options.initial_value.y
    /\ source_type = "Unset"
    /\ lastOp = Op("use_mouse")

NextMouse ==
    \/ \E element \in Targets, name \in {"mousemove", "dragover"}, event \in MouseEvents :
           DispatchMouse(element, name, event)
    \/ \E element \in Targets, name \in {"touchstart", "touchmove"}, event \in TouchEvents :
           DispatchTouch(element, name, event)
    \/ \E element \in Targets : DispatchTouchEnd(element)
    \/ \E v \in Coords : set_x(v)
    \/ \E v \in Coords : set_y(v)
    \/ RunPendingEffects

SpecMouse == InitMouse /\ [][NextMouse]_vars

\* the tracker with the life cycle of its bindings: events, changes of the
\* target signal given as options.target and disposal of the owning scope
NextMouseScope ==
    \/ \E element \in Targets, name \in {"mousemove", "dragover"}, event \in MouseEvents :
           DispatchMouse(element, name, event)
    \/ \E element \in Targets, name \in {"touchstart", "touchmove"}, event \in TouchEvents :
           DispatchTouch(element, name, event)
    \/ \E element \in Targets : DispatchTouchEnd(element)
    \/ RunPendingEffects
    \/ \E new \in TargetValues : ChangeTarget(new)
    \/ DisposeScope

SpecMouseScope == InitMouse /\ [][NextMouseScope]_vars

\* every use of the binder: a binding made by use_event_listener_with_options
\* with any options, or the bindings of a tracker
InitBindings == Init \/ InitMouse

NextBindings ==
    \/ \E event \in ListenerEvents, opts \in AddEventListenerOptions, sync \in BOOLEAN :
           Bind(event, opts, sync)
    \/ RunPendingEffects
    \/ \E new \in TargetValues : ChangeTarget(new)
    \/ Unsubscribe
    \/ DisposeScope
    \/ \E element \in Targets, name \in {"mousemove", "dragover"}, event \in MouseEvents :
           DispatchMouse(element, name, event)
    \/ \E element \in Targets, name \in {"touchstart", "touchmove"}, event \in TouchEvents :
           DispatchTouch(element, name, event)
    \/ \E element \in Targets : DispatchTouchEnd(element)

SpecBindings == InitBindings /\ [][NextBindings]_vars

\* ------------------------------------------------------ math/use_not.rs
MaxWrites == 4         \* writes to the source signal in one behaviour

\* a Signal<bool> is the source signal or a signal derived from another
\* signal by a closure; "not" is `move || !a.get()`, "same" is `move || a.get()`
Source == [kind |-> "source"]
Derive(f, s) == [kind |-> "derive", f |-> f, of |-> s]

use_not_DerivesSame(s) == Derive("same", s)

\* use_not(a): Signal::derive(move || !a.get())
use_not(s) == Derive("not", s)

\* Signal::get: the source returns its value, a derived signal runs its closure
RECURSIVE get(_, _)
get(s, value) ==
    IF s.kind = "source" THEN value
    ELSE IF s.f = "not" THEN ~get(s.of, value)
    ELSE get(s.of, value)

\* the two signals the program derives from the source
not_a == use_not(Source)
not_not_a == use_not(use_not(Source))

\* a write to the source signal
set_a(v) ==
    /\ Len(a.writes) < MaxWrites
    /\ a' = [value |-> v, writes |-> Append(a.writes, v)]
    /\ lastOp' = Op("set_a")
    /\ UNCHANGED <<reads, failing, binderVars, mouseVars>>

\* a read of both derived signals
GetDerived ==
    /\ reads' = Some([not_a |-> get(not_a, a.value), not_not_a |-> get(not_not_a, a.value)])
    /\ lastOp' = Op("get")
    /\ UNCHANGED <<a, failing, binderVars, mouseVars>>

\* the state after the source signal and the derived signals have been created
InitNot ==
    /\ a \in [value : BOOLEAN, writes : {<< >>}]
    /\ reads = None
    /\ lastOp = Op("use_not")
    /\ failing = {}
    /\ target = NoElement
    /\ listeners = {}
    /\ bindings = << >>
    /\ disposed = FALSE
    /\ calls = << >>
    /\ unsubscribed = FALSE
    /\ fresh = FALSE
    /\ options = NoTracker
    /\ x = 0
    /\ y = 0
    /\ source_type = "Unset"

NextNot ==
    \/ \E v \in BOOLEAN : set_a(v)
    \/ GetDerived

SpecNot == InitNot /\ [][NextNot]_vars

\* ------------------------------------------------------ binder properties
\* the native registrations of the binding's handler
Registrations == {l \in listeners : l.handler = "listener"}
RegisteredTargets == {l.target : l \in Registrations}
Bound == "listener" \in DOMAIN bindings
Binding == bindings["listener"]
RemoveCall(element) ==
    [call |-> "remove", target |-> element, event |-> Binding.event,
     handler |-> "listener", opts |-> None]
AddCall(element) ==
    [call |-> "add", target |-> element, event |-> Binding.event,
     handler |-> "listener", opts |-> Binding.options]

\* C1: the handler of one binding is registered on at most one target at a
\* time, in every state reachable by target changes, unsubscribe calls and
\* scope teardown
C1_AtMostOneTarget == Cardinality(RegisteredTargets) <= 1

\* C2: for a live binding (not unsubscribed, scope not disposed) whose effect
\* has completed its update, exactly one native registration is active and it
\* is on the currently resolved target, whenever the signal resolves to one
C2_ExactlyOneOnCurrentTarget ==
    (Bound /\ ~unsubscribed /\ ~disposed /\ Binding.effect = "active" /\ target # NoElement)
        => (Cardinality(Registrations) = 1 /\ RegisteredTargets = {target})

\* C3: a change of the resolved target of a live binding from A to B makes
\* exactly one native unregister call on A, then exactly one native register
\* call on B, and takes the handler from being registered on A only to being
\* registered on B only
C3_OneUnregisterThenOneRegister ==
    [][(/\ Bound /\ ~unsubscribed /\ Binding.effect = "active"
        /\ lastOp'.op = "target"
        /\ target # NoElement /\ target' # NoElement /\ target # target')
           => (/\ calls' = <<RemoveCall(target), AddCall(target')>>
               /\ RegisteredTargets = {target}
               /\ RegisteredTargets' = {target'})]_vars

\* C4: bind followed immediately by the returned unsubscribe function leaves
\* zero native registrations of the handler, whether or not the effect has
\* had its first run by then
C4_BindThenUnsubscribeLeavesNone ==
    (lastOp.op = "unsubscribe" /\ fresh) => Registrations = {}

\* C5: when the scope is disposed without unsubscribe ever having been
\* called, the stored cleanup action runs exactly once, zero registrations
\* remain, and no later target change registers again
C5_DisposeLeavesNone ==
    (Bound /\ disposed /\ ~unsubscribed)
        => (/\ Registrations = {}
            /\ lastOp.op = "dispose" =>
                   calls = IF Binding.cleanup_prev_element = NoElement THEN << >>
                           ELSE <<RemoveCall(Binding.cleanup_prev_element)>>)

\* C6: once the unsubscribe function has been called the handler is
\* registered on no target, also after the target signal has changed; stated
\* for a handler registered without capture, which removeEventListener finds
C6_UnsubscribedForGood ==
    (Bound /\ unsubscribed /\ ~Binding.options.capture /\ lastOp.op = "target")
        => Registrations = {}

\* C7: a call of the unsubscribe function after the first leaves the set of
\* native registrations as it was before the call, also when the target
\* changed between the calls; stated for a handler registered without capture
C7_UnsubscribeIdempotent ==
    [][(/\ Bound /\ unsubscribed /\ ~Binding.options.capture
        /\ lastOp.op = "target"
        /\ lastOp'.op = "unsubscribe")
           => listeners' = listeners]_vars

\* C14: whatever the listener options, capture = true included, a cleanup
\* action (run by unsubscribe, by a target change or by scope disposal)
\* removes the registration that was added with those options: once the
\* operation is over the handler is no longer registered on the element the
\* cleanup unregistered it from, unless the same operation registered it there
\* again
C14_CleanupRemovesRegistration ==
    \A i \in DOMAIN calls :
        (/\ calls[i].call = "remove"
         /\ ~\E j \in DOMAIN calls :
                j > i /\ calls[j].call = "add" /\ calls[j].target = calls[i].target)
            => ~\E l \in Registrations : l.target = calls[i].target

\* C15: when the target signal resolves to no target, at bind time or after a
\* change seen by the effect, the binder makes no native register call and
\* stores the no-op cleanup; when the signal of a live binding (not
\* unsubscribed, scope not disposed, effect run) resolves to a target, the
\* handler is registered on that target
C15_AbsentTargetThenRegistered ==
    Bound =>
        /\ (/\ target = NoElement
            /\ \/ lastOp.op = "bind"
               \/ lastOp.op \in {"target", "effects"} /\ Binding.effect = "active")
               => /\ \A i \in DOMAIN calls : calls[i].call # "add"
                  /\ Binding.cleanup_prev_element = NoElement
        /\ (/\ target # NoElement
            /\ ~unsubscribed /\ ~disposed /\ Binding.effect = "active")
               => target \in RegisteredTargets

\* the target of a live binding was absent and has become present: the only
\* native call of the change registered the handler on the new target
C15_Witness ==
    /\ Bound /\ ~unsubscribed /\ ~disposed
    /\ lastOp.op = "target"
    /\ target # NoElement
    /\ calls = <<AddCall(target)>>
    /\ RegisteredTargets = {target}
    /\ Binding.cleanup_prev_element = target

\* C16: a native register or unregister call that returns Err is never
\* propagated: bind still yields a binding with its unsubscribe function, the
\* effect's update after a target change still completes and stores the
\* cleanup for the new target, and unsubscribe and scope disposal still
\* complete; each operation makes the same native calls as when none fails
C16_NativeErrIgnored ==
    (Bound /\ failing # {}) =>
        /\ lastOp.op = "bind" =>
               /\ ENABLED Unsubscribe
               /\ target # NoElement => calls[1] = AddCall(target)
        /\ (lastOp.op \in {"bind", "effects", "target"} /\ Binding.effect = "active")
               => /\ Binding.cleanup_prev_element = target
                  /\ target # NoElement => calls[Len(calls)] = AddCall(target)
        /\ lastOp.op = "unsubscribe" =>
               /\ unsubscribed
               /\ Binding.cleanup_prev_element # NoElement
                      => calls = <<RemoveCall(Binding.cleanup_prev_element)>>
        /\ lastOp.op = "dispose" =>
               /\ disposed
               /\ Binding.effect = "disposed"
               /\ Binding.cleanup_prev_element # NoElement
                      => calls = <<RemoveCall(Binding.cleanup_prev_element)>>

\* both native calls fail during a change of the target from one element to
\* another: the handler was not registered on the new target, and the stored
\* cleanup is the one for the new target
C16_Witness ==
    /\ Bound
    /\ failing = NativeCalls
    /\ lastOp.op = "target"
    /\ target # NoElement
    /\ Len(calls) = 2
    /\ calls[1].call = "remove" /\ calls[1].target # target
    /\ calls[2] = AddCall(target)
    /\ target \notin RegisteredTargets
    /\ Binding.cleanup_prev_element = target

\* ----------------------------------------------------- tracker properties
MouseOps == {"mousemove", "dragover"}
TouchOps == {"touchstart", "touchmove"}

\* C8: the source type starts as Unset, is Mouse after every mousemove or
\* dragover event that yields coordinates, is Touch after every touchstart or
\* touchmove event that yields coordinates, and once it has left Unset no
\* event, touchend reset or set_x / set_y call brings it back to Unset
C8_SourceTypeNeverBackToUnset ==
    /\ source_type = "Unset"
    /\ [][/\ (lastOp'.op \in MouseOps /\ lastOp'.result # None) => source_type' = "Mouse"
          /\ (lastOp'.op \in TouchOps /\ lastOp'.result # None) => source_type' = "Touch"
          /\ source_type # "Unset" => source_type' # "Unset"]_vars

\* a touchmove event has yielded coordinates and made the source type Touch
C8_Witness ==
    /\ lastOp.op = "touchmove"
    /\ lastOp.result # None
    /\ source_type = "Touch"

\* C9: with touch and reset-on-touch-end enabled and a strategy other than
\* Movement, a touchend event on the tracked target of a tracker whose scope
\* is alive sets x and y to the initial value, whatever they were, and leaves
\* the source type as it was; with reset-on-touch-end disabled a touchend
\* event changes none of the three
C9_TouchEndResetsCoordinatesOnly ==
    [][\A element \in Targets :
          DispatchTouchEnd(element) =>
              /\ (/\ options.touch
                  /\ options.reset_on_touch_ends
                  /\ options.coord_type.kind # "Movement"
                  /\ ~disposed
                  /\ element = target)
                     => (/\ x' = options.initial_value.x
                         /\ y' = options.initial_value.y
                         /\ source_type' = source_type)
              /\ ~options.reset_on_touch_ends => UNCHANGED <<x, y, source_type>>]_vars

\* a touchend event has reset the coordinates of a tracker whose last
\* coordinates came from a touch
C9_Witness ==
    /\ lastOp.op = "touchend"
    /\ lastOp.handled
    /\ lastOp.at = target
    /\ options.initial_value.x # 0
    /\ x = options.initial_value.x
    /\ y = options.initial_value.y
    /\ source_type = "Touch"

\* C10: with touch disabled no touchstart, touchmove or touchend event
\* changes x, y or the source type, for every strategy and every value of
\* reset-on-touch-end
C10_TouchDisabledIgnoresTouch ==
    [][(~options.touch /\ lastOp'.op \in TouchOps \cup {"touchend"})
           => UNCHANGED <<x, y, source_type>>]_vars

\* a touchstart event has arrived at the tracked target of a tracker with
\* touch disabled that tracks the mouse
C10_Witness ==
    /\ ~options.touch
    /\ options.reset_on_touch_ends
    /\ lastOp.op = "touchstart"
    /\ lastOp.at = target
    /\ source_type = "Mouse"

\* C11: with the Movement strategy no touchstart, touchmove or touchend event
\* changes x, y or the source type, also when touch and reset-on-touch-end are
\* both enabled
C11_MovementIgnoresTouch ==
    [][(options.coord_type.kind = "Movement" /\ lastOp'.op \in TouchOps \cup {"touchend"})
           => UNCHANGED <<x, y, source_type>>]_vars

\* a touchend event has arrived at the tracked target of a Movement tracker
\* with touch and reset-on-touch-end enabled, after a mouse event moved x
C11_Witness ==
    /\ options.coord_type.kind = "Movement"
    /\ options.touch
    /\ options.reset_on_touch_ends
    /\ lastOp.op = "touchend"
    /\ lastOp.at = target
    /\ source_type = "Mouse"
    /\ x # options.initial_value.x

\* C12: on the tracked target of a live tracker, a mousemove or dragover
\* event sets (x, y) to the event's page pair under Page, its client pair
\* under Client and its movement pair under Movement, and the source type to
\* Mouse; with touch enabled a touchstart or touchmove event with at least one
\* touch sets (x, y) to the first touch's page pair under Page and its client
\* pair under Client, and the source type to Touch
C12_CoordinateFamilies ==
    [][/\ (lastOp'.op \in MouseOps /\ lastOp'.at = target /\ target # NoElement /\ ~disposed)
           => \A event \in MouseEvents :
                  DispatchMouse(target, lastOp'.op, event)
                      => /\ options.coord_type.kind = "Page"
                                => <<x', y'>> = <<event.page_x, event.page_y>>
                         /\ options.coord_type.kind = "Client"
                                => <<x', y'>> = <<event.client_x, event.client_y>>
                         /\ options.coord_type.kind = "Movement"
                                => <<x', y'>> = <<event.movement_x, event.movement_y>>
                         /\ options.coord_type.kind \in {"Page", "Client", "Movement"}
                                => source_type' = "Mouse"
       /\ (/\ lastOp'.op \in TouchOps /\ lastOp'.at = target /\ target # NoElement
           /\ ~disposed /\ options.touch)
           => \A event \in TouchEvents :
                  (DispatchTouch(target, lastOp'.op, event) /\ Len(event.touches) > 0)
                      => /\ options.coord_type.kind = "Page"
                                => <<x', y'>> = <<event.touches[1].page_x,
                                                  event.touches[1].page_y>>
                         /\ options.coord_type.kind = "Client"
                                => <<x', y'>> = <<event.touches[1].client_x,
                                                  event.touches[1].client_y>>
                         /\ options.coord_type.kind \in {"Page", "Client"}
                                => source_type' = "Touch"]_vars

\* a dragover event on the tracked target of a Client tracker has replaced
\* coordinates that came from a touch by the event's client pair
C12_Witness ==
    /\ options.coord_type.kind = "Client"
    /\ options.touch
    /\ lastOp.op = "dragover"
    /\ lastOp.at = target
    /\ lastOp.handled
    /\ source_type = "Mouse"
    /\ \E event \in MouseEvents : <<x, y>> = <<event.client_x, event.client_y>>

\* C17: a handler whose extraction yields no data leaves x, y and the source
\* type unchanged: a touchstart or touchmove event with no touches, a touch
\* event under a Custom extractor that maps no touch, a mouse event under a
\* Custom extractor that maps no mouse event; a handler whose extraction
\* yields a pair sets x, y and the source type in the step of that one event
C17_NoDataNoUpdate ==
    [][(lastOp'.op \in MouseOps \cup TouchOps /\ lastOp'.handled) =>
          /\ lastOp'.result = None => UNCHANGED <<x, y, source_type>>
          /\ lastOp'.result # None =>
                 /\ <<x', y'>> = lastOp'.result[1]
                 /\ source_type' = IF lastOp'.op \in MouseOps THEN "Mouse" ELSE "Touch"
          /\ lastOp'.op \in TouchOps =>
                 \A event \in TouchEvents :
                     (DispatchTouch(lastOp'.at, lastOp'.op, event) /\ event.touches = << >>)
                         => UNCHANGED <<x, y, source_type>>
          /\ (/\ lastOp'.op \in TouchOps
              /\ options.coord_type.kind = "Custom"
              /\ options.coord_type.ex \in {"UseMouseEventExtractorDefault", "MyExtractor"})
                 => UNCHANGED <<x, y, source_type>>
          /\ (/\ lastOp'.op \in MouseOps
              /\ options.coord_type = [kind |-> "Custom", ex |-> "UseMouseEventExtractorDefault"])
                 => UNCHANGED <<x, y, source_type>>]_vars

\* the touch handler of a tracker with the extractor that maps mouse events
\* only has run on the tracked target and has left the coordinates of an
\* earlier mouse event in place
C17_Witness ==
    /\ options.coord_type = [kind |-> "Custom", ex |-> "MyExtractor"]
    /\ lastOp.op \in TouchOps
    /\ lastOp.handled
    /\ lastOp.result = None
    /\ source_type = "Mouse"
    /\ \E event \in MouseEvents : <<x, y>> = <<event.offset_x, event.offset_y>>

\* C18: under the Screen strategy a mousemove or dragover event handled by the
\* tracker sets (x, y) to the event's (screenX, screenY), and a touchstart or
\* touchmove event with at least one touch sets (x, y) to the first touch's
\* (screenX, screenY)
C18_ScreenPair ==
    [][(options.coord_type.kind = "Screen" /\ lastOp'.handled) =>
          /\ lastOp'.op \in MouseOps =>
                 \A event \in MouseEvents :
                     DispatchMouse(lastOp'.at, lastOp'.op, event)
                         => <<x', y'>> = <<event.screen_x, event.screen_y>>
          /\ lastOp'.op \in TouchOps =>
                 \A event \in TouchEvents :
                     (DispatchTouch(lastOp'.at, lastOp'.op, event) /\ Len(event.touches) > 0)
                         => <<x', y'>> = <<event.touches[1].screen_x,
                                           event.touches[1].screen_y>>]_vars

\* C19: once the scope that owns a mouse tracker has been disposed, no
\* listener of the tracker is registered on any target, and no later event,
\* on the old target or on one the signal names afterwards, changes x, y or
\* the source type
C19_DisposedTrackerIsSilent ==
    [][disposed' =>
          /\ listeners' = {}
          /\ disposed => UNCHANGED <<x, y, source_type>>]_vars

\* after the disposal of a tracker that had followed the mouse, the target
\* signal changed and a mousemove event arrived at the new target
C19_Witness ==
    /\ disposed
    /\ lastOp.op = "mousemove"
    /\ lastOp.at = target
    /\ \E k \in DOMAIN bindings : bindings[k].cleanup_prev_element \notin {target, NoElement}
    /\ source_type = "Touch"

\* C20: every native registration a binding makes, the first one and each one
\* after a change of the target, carries the event name, the handler and the
\* listener options that were given to bind; every listener a mouse tracker
\* registers is passive, also after it has been bound again to a new target
C20_SameNameHandlerOptions ==
    /\ \A l \in listeners :
           /\ l.handler \in DOMAIN bindings
           /\ l.event = bindings[l.handler].event
           /\ l.capture = bindings[l.handler].options.capture
           /\ l.passive = bindings[l.handler].options.passive
    /\ \A i \in DOMAIN calls :
           calls[i].call = "add" =>
               /\ calls[i].handler \in DOMAIN bindings
               /\ calls[i].event = bindings[calls[i].handler].event
               /\ calls[i].opts = bindings[calls[i].handler].options
    /\ options # NoTracker =>
           /\ \A l \in listeners : l.passive
           /\ \A i \in DOMAIN calls : calls[i].call = "add" => calls[i].opts.passive

\* a change of the target has moved the listeners of a tracker from one
\* element to another
C20_Witness ==
    /\ options # NoTracker
    /\ lastOp.op = "target"
    /\ target # NoElement
    /\ listeners # {}
    /\ \A l \in listeners : l.target = target
    /\ calls # << >>
    /\ calls[1].call = "remove"
    /\ calls[1].target # target
    /\ calls[Len(calls)].call = "add"

\* ------------------------------------------------------ use_not properties
\* C13: whenever the signal returned by use_not is read, after any sequence
\* of writes to the source, the value read is the logical negation of the
\* source's current value; the signal of use_not applied twice reads as the
\* source's value
C13_NotAndDoubleNot ==
    lastOp.op = "get" => reads = Some([not_a |-> ~a.value, not_not_a |-> a.value])

\* the derived signals have been read after the source was written twice
\* with different values and holds TRUE
C13_Witness ==
    /\ lastOp.op = "get"
    /\ Len(a.writes) >= 2
    /\ a.writes[1] # a.writes[2]
    /\ a.value
    /\ reads # None

====
